---- MODULE Spec2Model ----
(***************************************************************************)
(* A model of @ibnlanre/clone (src/index.ts): the handler registry, the    *)
(* clone dispatcher returned by createCloneFunction, the default handlers  *)
(* and copyProperties, run over a small heap of JavaScript objects.        *)
(*                                                                         *)
(* Values are integers: a positive integer is a reference (an address of   *)
(* the heap), the others are the primitives below.  An object of the heap  *)
(* carries its prototype (named by the class it belongs to), its own       *)
(* properties in creation order with their descriptors, and its internal   *)
(* contents: array elements, Set members, Map keys and values, and the     *)
(* internal slot of a Date.  The only built-in constructor that occurs as  *)
(* a value is WeakMap, held by an own property named constructor.          *)
(***************************************************************************)
EXTENDS Integers, Sequences, FiniteSets, TLC

\* ---------------------------------------------------------------- bounds
NSrc == 2        \* objects of the source graph
MaxSlots == 2    \* user properties, elements or members of the root object
MaxEntries == 1  \* entries of a Map
MaxCalls == 2    \* top-level clone calls in one behaviour

\* ---------------------------------------------------------------- values
Undefined == 0   \* undefined
Null == -1       \* null
PStr == -2       \* a primitive string ("hello")
PCustom == -3    \* the string a custom String handler returns ("custom-hello")
PFresh == -4     \* a primitive made by a constructor: the stack of a new
                 \* Error, the name and the length of a new wrapper function
PProto == -5     \* a primitive inherited from a prototype: the name and the
                 \* message of Error.prototype
Hole == -6       \* an index that is not present in an array
WeakMapCtor == -7  \* the built-in constructor WeakMap, a function that is
                   \* no part of the graph

Primitives == {Undefined, Null, PStr, PCustom, PFresh, PProto}

IsRef(v) == v > 0

\* ---------------------------------------------------------------- objects
\* A property descriptor together with its key.  acc is TRUE for an
\* accessor descriptor (get/set), whose val is unused and whose writable
\* attribute is absent (read as FALSE).
Prop(key, acc, e, w, c, val) ==
    [key |-> key, acc |-> acc, e |-> e, w |-> w, c |-> c, val |-> val]

\* result[key] = v on a missing key, {value: v, enumerable, writable,
\* configurable all true}
DataProp(key, val) == Prop(key, FALSE, TRUE, TRUE, TRUE, val)

HiddenProp(key, val) == Prop(key, FALSE, FALSE, TRUE, TRUE, val)

Obj(proto, props, mkeys, items, data) ==
    [proto |-> proto, props |-> props, mkeys |-> mkeys, items |-> items,
     data |-> data]

NoData == 0

EmptyObj(proto) == Obj(proto, <<>>, <<>>, <<>>, NoData)

\* The internal state of a genuine Promise is its data; a settled promise
\* keeps its value or reason as its one item.  An object without that state
\* is no promise, whatever its prototype.
Pending == 1

Fulfilled == 2

Rejected == 3

IsPromise(o) == o.proto = "Promise" /\ o.data \in {Pending, Fulfilled, Rejected}

\* Symbol keys are the keys of this set; every other key is a string.
SymbolKeys == {"@@sym", "@@iterator"}

\* The callable objects: typeof gives "function" for them.
CallableProtos == {"Function", "AsyncFunction", "GeneratorFunction",
                   "AsyncGeneratorFunction"}

HasOwn(o, key) == \E i \in 1..Len(o.props) : o.props[i].key = key

OwnIndex(o, key) == CHOOSE i \in 1..Len(o.props) : o.props[i].key = key

\* Object.getOwnPropertyNames / Object.getOwnPropertySymbols, as the
\* positions of the keys in the object's property list.
RECURSIVE FilterKeys(_, _, _)
FilterKeys(props, i, symbols) ==
    IF i > Len(props) THEN <<>>
    ELSE IF (props[i].key \in SymbolKeys) = symbols
         THEN <<i>> \o FilterKeys(props, i + 1, symbols)
         ELSE FilterKeys(props, i + 1, symbols)

OwnPropertyNames(o) == FilterKeys(o.props, 1, FALSE)

OwnPropertySymbols(o) == FilterKeys(o.props, 1, TRUE)

\* Prototypes whose chain ends in Object.prototype, which holds the
\* __proto__ accessor; an object made by Object.create(null) has none.
InheritsProtoSetter(proto) == proto # "null"

\* Object.defineProperty(result, key, descriptor)
DefineProperty(o, p) ==
    IF HasOwn(o, p.key)
    THEN [o EXCEPT !.props[OwnIndex(o, p.key)] = p]
    ELSE [o EXCEPT !.props = Append(@, p)]

\* result[key] = v, the ordinary [[Set]]: an own data property is updated in
\* place when writable; a missing key becomes a fresh data property unless a
\* setter is inherited, which is the case of "__proto__": that setter makes
\* an object or null the new prototype ("replaced" stands for a prototype
\* that is the object v, which no class names) and ignores anything else.
SetProperty(o, key, v) ==
    IF HasOwn(o, key)
    THEN LET i == OwnIndex(o, key) IN
         IF ~o.props[i].acc /\ o.props[i].w
         THEN [o EXCEPT !.props[i].val = v]
         ELSE o
    ELSE IF key = "__proto__" /\ InheritsProtoSetter(o.proto)
         THEN IF IsRef(v) \/ v = WeakMapCtor
              THEN [o EXCEPT !.proto = "replaced"]
              ELSE IF v = Null THEN [o EXCEPT !.proto = "null"] ELSE o
         ELSE [o EXCEPT !.props = Append(@, DataProp(key, v))]

\* value?.constructor: an own property named constructor shadows the one
\* inherited from the prototype, which names the class.  "own" stands for
\* an own value that is no registered constructor.
ConstructorOf(heap, v) ==
    IF ~IsRef(v)
    THEN IF v \in {Undefined, Null} THEN "undefined"
         ELSE IF v = WeakMapCtor THEN "Function" ELSE "String"
    ELSE IF HasOwn(heap[v], "constructor")
         THEN LET p == heap[v].props[OwnIndex(heap[v], "constructor")] IN
              IF ~p.acc /\ p.val = WeakMapCtor THEN "WeakMap" ELSE "own"
         ELSE IF heap[v].proto = "null" THEN "undefined"
         ELSE heap[v].proto

TypeOf(heap, v) ==
    IF v = Undefined THEN "undefined"
    ELSE IF v = Null THEN "object"
    ELSE IF v = WeakMapCtor THEN "function"
    ELSE IF ~IsRef(v) THEN "string"
    ELSE IF heap[v].proto \in CallableProtos THEN "function"
    ELSE "object"

isNonObject(type) == type # "object" /\ type # "function"

isPrimitive(heap, value) ==
    IF value = Null \/ value = Undefined THEN TRUE
    ELSE isNonObject(TypeOf(heap, value))

\* A variant that leaves the writable attribute untested.
isPropertyAccessorNoWritable(descriptor, key) ==
    \/ descriptor.acc
    \/ ~descriptor.e
    \/ ~descriptor.c
    \/ key = "__proto__"

\* A variant without the test for the key "__proto__".
isPropertyAccessorNoProtoKey(descriptor, key) ==
    \/ descriptor.acc
    \/ ~descriptor.e
    \/ ~descriptor.c
    \/ ~descriptor.w

isPropertyAccessor(descriptor, key) ==
    \/ descriptor.acc
    \/ ~descriptor.e
    \/ ~descriptor.c
    \/ ~descriptor.w
    \/ key = "__proto__"

\* ---------------------------------------------------------------- registry
\* A CloneRegistry is its handlers map: a function from the registered
\* constructors to the handlers' names.
NewRegistry == [c \in {} |-> "none"]

\* A variant that keeps the handler a constructor already has.
setHandlerKeepFirst(reg, constructor, handler) ==
    [c \in DOMAIN reg \cup {constructor} |->
        IF c \in DOMAIN reg THEN reg[c] ELSE handler]

setHandler(reg, constructor, handler) ==
    [c \in DOMAIN reg \cup {constructor} |->
        IF c = constructor THEN handler ELSE reg[c]]

hasHandler(reg, constructor) == constructor \in DOMAIN reg

getHandler(reg, heap, value) ==
    LET constructor == ConstructorOf(heap, value) IN
    IF constructor \in DOMAIN reg THEN reg[constructor] ELSE "null"

RECURSIVE SetAll(_, _, _)
SetAll(reg, constructors, handler) ==
    IF constructors = <<>> THEN reg
    ELSE SetAll(setHandler(reg, Head(constructors), handler),
                Tail(constructors), handler)

registerFunctionConstructors(reg) ==
    setHandler(setHandler(setHandler(setHandler(reg,
        "Function", "Function"),
        "AsyncFunction", "AsyncFunction"),
        "GeneratorFunction", "GeneratorFunction"),
        "AsyncGeneratorFunction", "AsyncGeneratorFunction")

registerTypedArrayConstructors(reg) ==
    SetAll(reg, <<"Int8Array", "Uint8Array", "Uint8ClampedArray",
                  "Int16Array", "Uint16Array", "Int32Array", "Uint32Array",
                  "Float32Array", "Float64Array", "BigInt64Array",
                  "BigUint64Array">>, "TypedArray")

registerWeakCollections(reg) ==
    SetAll(reg, <<"WeakMap", "WeakSet", "WeakRef">>, "Identity")

RECURSIVE SetEach(_, _)
SetEach(reg, constructors) ==
    IF constructors = <<>> THEN reg
    ELSE SetEach(setHandler(reg, Head(constructors), Head(constructors)),
                 Tail(constructors))

createDefaultRegistry ==
    registerWeakCollections(registerTypedArrayConstructors(
        registerFunctionConstructors(
            SetEach(NewRegistry,
                    <<"Date", "RegExp", "Array", "Map", "Set", "ArrayBuffer",
                      "DataView", "Error", "URL", "URLSearchParams",
                      "FormData", "Blob", "File", "Object">>))))

\* The registry modifier of the test "should test createCloneFunction with
\* registryModifier": a handler for String and Handlers.Object for Object.
CustomModifier(reg) ==
    setHandler(setHandler(reg, "String", "CustomString"), "Object", "Object")

\* ---------------------------------------------------------------- state
VARIABLES
    heap,       \* the objects: heap[a] is the object at address a
    registry,   \* the registry of each clone function
    pc,         \* "idle", "running" (inside a top-level call) or "done"
    fn,         \* the clone function of the current call
    arg,        \* the argument of the current top-level call
    visited,    \* the WeakMap of the current call: source -> duplicate
    stack,      \* the handlers that are running, innermost last
    base,       \* the size of the heap when the current call began
    invoked,    \* the handler invocations of the current call, in order
    log,        \* the clone invocations of the current call that returned
    results,    \* the top-level calls that returned, in order
    calls       \* the setHandler calls made by user code, in order

vars == <<heap, registry, pc, fn, arg, visited, stack, base, invoked, log,
          results, calls>>

\* The clone functions: the module's default export and one made by
\* createCloneFunction(CustomModifier).
CloneFunctions == {"default", "custom"}

\* ---------------------------------------------------------------- tracker
\* A variant that never finds a reference in the tracker.
visitedHasNever(vis, value) == FALSE

visitedHas(vis, value) == value \in DOMAIN vis

\* A variant that answers with the source reference itself.
visitedGetSource(vis, value) == value

visitedGet(vis, value) == vis[value]

visitedSet(vis, value, result) == (value :> result) @@ vis

\* ---------------------------------------------------------------- outcomes
\* A handler that loops over children is run step by step: its activation
\* is a frame, which names the loop (h), the source (src), the shell under
\* construction (dst), the position in the loop (i) and, for a Map, the
\* cloned key waiting for its value (pk).
Frame(h, src, dst) == [h |-> h, src |-> src, dst |-> dst, i |-> 1, pk |-> Undefined]

NoFrame == Frame("none", Undefined, Undefined)

\* What one clone invocation has done when it either returns or reaches the
\* first child of a looping handler.  tracked and looked tell whether
\* visited.has and registry.getHandler were evaluated; handler names the
\* handler that was invoked, if any.
Returned(val, hp, vis, tracked, handler) ==
    [done |-> TRUE, val |-> val, heap |-> hp, visited |-> vis,
     frame |-> NoFrame, tracked |-> tracked, looked |-> handler # "none",
     handler |-> handler]

Entered(frame, hp, vis, handler) ==
    [done |-> FALSE, val |-> frame.dst, heap |-> hp, visited |-> vis,
     frame |-> frame, tracked |-> TRUE, looked |-> TRUE, handler |-> handler]

\* value[key], the ordinary [[Get]]; inherited is what the prototype chain
\* gives when the key is not an own property.  A getter returns PStr.
Get(o, key, inherited) ==
    IF HasOwn(o, key)
    THEN LET p == o.props[OwnIndex(o, key)] IN
         IF p.acc THEN PStr ELSE p.val
    ELSE inherited

Truthy(v) == v \notin {Undefined, Null}

\* Object.assign(target, source): every enumerable own property of the
\* source is read and set on the target.
RECURSIVE AssignFrom(_, _, _)
AssignFrom(target, source, order) ==
    IF order = <<>> THEN target
    ELSE LET p == source.props[Head(order)] IN
         AssignFrom(IF p.e THEN SetProperty(target, p.key,
                                            Get(source, p.key, Undefined))
                    ELSE target,
                    source, Tail(order))

ObjectAssign(target, source) ==
    AssignFrom(target, source,
               OwnPropertyNames(source) \o OwnPropertySymbols(source))

\* ---------------------------------------------------------------- handlers
\* copyProperties begins with visited.set(value, result); its loops over the
\* names and then the symbols run in the frame.
\* A variant without the visited.set of line one.
copyPropertiesUntracked(result, value, hp, vis, handler) ==
    Entered(Frame("copyProperties", value, result), hp, vis, handler)

copyProperties(result, value, hp, vis, handler) ==
    Entered(Frame("copyProperties", value, result), hp,
            visitedSet(vis, value, result), handler)

\* A variant whose shell stores undefined at every index.
HandlersArrayFilled(hp, vis, value) ==
    LET length == Len(hp[value].items)
        result == Len(hp) + 1
        shell == Obj("Array", <<>>, <<>>, [key \in 1..length |-> Undefined],
                     NoData)
    IN  Entered(Frame("Array", value, result), Append(hp, shell),
                visitedSet(vis, value, result), "Array")

HandlersArray(hp, vis, value) ==
    LET length == Len(hp[value].items)
        result == Len(hp) + 1
        shell == Obj("Array", <<>>, <<>>, [key \in 1..length |-> Hole], NoData)
    IN  Entered(Frame("Array", value, result), Append(hp, shell),
                visitedSet(vis, value, result), "Array")

HandlersMap(hp, vis, value) ==
    LET result == Len(hp) + 1 IN
    Entered(Frame("Map", value, result), Append(hp, EmptyObj("Map")),
            visitedSet(vis, value, result), "Map")

HandlersSet(hp, vis, value) ==
    LET result == Len(hp) + 1 IN
    Entered(Frame("Set", value, result), Append(hp, EmptyObj("Set")),
            visitedSet(vis, value, result), "Set")

HandlersObject(hp, vis, value) ==
    LET result == Len(hp) + 1 IN
    copyProperties(result, value, Append(hp, EmptyObj(hp[value].proto)), vis,
                   "Object")

\* new Constructor(value.message) has an own stack and an own message; then
\* result.name = value.name and, when value.stack is truthy, result.stack.
HandlersError(hp, vis, value) ==
    LET result == Len(hp) + 1
        v == hp[value]
        made == Obj(v.proto,
                    <<HiddenProp("stack", PFresh),
                      HiddenProp("message", Get(v, "message", PProto))>>,
                    <<>>, <<>>, NoData)
        named == SetProperty(made, "name", Get(v, "name", PProto))
        stack0 == Get(v, "stack", Undefined)
        shell == IF Truthy(stack0) THEN SetProperty(named, "stack", stack0)
                 ELSE named
    IN  copyProperties(result, value, Append(hp, shell), vis, "Error")

\* createInstance: a new function, with its own length, name and prototype
\* object, that applies the original.
createInstance(hp, value) ==
    LET result == Len(hp) + 1
        prototype == Len(hp) + 2
    IN  Append(Append(hp,
            Obj("Function",
                <<Prop("length", FALSE, FALSE, FALSE, TRUE, PFresh),
                  Prop("name", FALSE, FALSE, FALSE, TRUE, PFresh),
                  Prop("prototype", FALSE, FALSE, TRUE, FALSE, prototype)>>,
                <<>>, <<>>, value)),
            Obj("Object", <<HiddenProp("constructor", result)>>, <<>>, <<>>,
                NoData))

cloneFunctionProperties(value, result, hp, vis, handler) ==
    LET assigned == [hp EXCEPT ![result] = ObjectAssign(@, hp[value])]
        vproto == Get(hp[value], "prototype", Undefined)
        rproto == Get(assigned[result], "prototype", Undefined)
        withProto ==
            IF IsRef(vproto) /\ IsRef(rproto)
            THEN [assigned EXCEPT ![rproto] = ObjectAssign(@, assigned[vproto])]
            ELSE assigned
    IN  copyProperties(result, value, withProto, vis, handler)

HandlersFunction(hp, vis, value) ==
    cloneFunctionProperties(value, Len(hp) + 1, createInstance(hp, value), vis,
                            "Function")

\* createAsyncInstance: a new async function, which has no prototype
\* property, that applies the original.
createAsyncInstance(hp, value) ==
    Append(hp,
        Obj("AsyncFunction",
            <<Prop("length", FALSE, FALSE, FALSE, TRUE, PFresh),
              Prop("name", FALSE, FALSE, FALSE, TRUE, PFresh)>>,
            <<>>, <<>>, value))

\* A new generator function of the given class, with its own prototype
\* object (which has no constructor property), that applies the original.
GeneratorInstance(class, hp, value) ==
    LET prototype == Len(hp) + 2 IN
    Append(Append(hp,
        Obj(class,
            <<Prop("length", FALSE, FALSE, FALSE, TRUE, PFresh),
              Prop("name", FALSE, FALSE, FALSE, TRUE, PFresh),
              Prop("prototype", FALSE, FALSE, TRUE, FALSE, prototype)>>,
            <<>>, <<>>, value)),
        EmptyObj("Generator"))

createGeneratorInstance(hp, value) ==
    GeneratorInstance("GeneratorFunction", hp, value)

createAsyncGeneratorInstance(hp, value) ==
    GeneratorInstance("AsyncGeneratorFunction", hp, value)

HandlersAsyncFunction(hp, vis, value) ==
    cloneFunctionProperties(value, Len(hp) + 1, createAsyncInstance(hp, value),
                            vis, "AsyncFunction")

HandlersGeneratorFunction(hp, vis, value) ==
    cloneFunctionProperties(value, Len(hp) + 1,
                            createGeneratorInstance(hp, value), vis,
                            "GeneratorFunction")

HandlersAsyncGeneratorFunction(hp, vis, value) ==
    cloneFunctionProperties(value, Len(hp) + 1,
                            createAsyncGeneratorInstance(hp, value), vis,
                            "AsyncGeneratorFunction")

\* ---------------------------------------------------------------- calls
\* A plain call f.apply(t, a), with new.target undefined.  The body of a
\* function that no handler made runs with the receiver and the arguments
\* it is given; what the caller gets from it depends on its kind: the
\* returned value, a promise of it, or an iterator with the yielded
\* sequence and the value returned at the end.
Gives(class) ==
    CASE class = "Function" -> {"value"}
      [] class = "AsyncFunction" -> {"promised"}
      [] class \in {"GeneratorFunction", "AsyncGeneratorFunction"} ->
            {"yielded", "returned"}

RunBody(hp, f, t, a) ==
    [body |-> f, this |-> t, args |-> a, gives |-> Gives(hp[f].proto)]

RECURSIVE PlainCall(_, _, _, _)

\* A variant that takes the branch of new.target in every call: the
\* original runs with a new instance as its receiver.
createInstancePlainConstructs(hp, f, t, a) ==
    PlainCall(hp, hp[f].data, PFresh, a)

\* The function made by createInstance: return value.apply(this, args)
createInstancePlain(hp, f, t, a) == PlainCall(hp, hp[f].data, t, a)

\* The one made by createAsyncInstance: return await value.apply(this, args)
createAsyncInstancePlain(hp, f, t, a) == PlainCall(hp, hp[f].data, t, a)

\* The ones made by createGeneratorInstance and
\* createAsyncGeneratorInstance: yield* value.apply(this, args), whose
\* value, the one the original returns at the end, is not returned.
createGeneratorInstancePlain(hp, f, t, a) ==
    [PlainCall(hp, hp[f].data, t, a) EXCEPT !.gives = @ \ {"returned"}]

PlainCall(hp, f, t, a) ==
    IF hp[f].data = NoData THEN RunBody(hp, f, t, a)
    ELSE CASE hp[f].proto = "Function" -> createInstancePlain(hp, f, t, a)
           [] hp[f].proto = "AsyncFunction" ->
                 createAsyncInstancePlain(hp, f, t, a)
           [] hp[f].proto \in {"GeneratorFunction", "AsyncGeneratorFunction"} ->
                 createGeneratorInstancePlain(hp, f, t, a)

\* ---------------------------------------------------------------- construction
\* The string "object", and the word a value is when compared with the
\* words "object" and "function": only that string equals one of them.
PObjectWord == -8

WordOf(v) == IF v = PObjectWord THEN "object" ELSE "neither"

\* What a new-expression evaluates to: the object the body returned
\* ("value"), the instance the body ran on ("instance", with its prototype,
\* the body that initialised it and the arguments), or an object with the
\* prototype on which no body ran ("blank").
Outcome(is, proto, value, body, args) ==
    [is |-> is, proto |-> proto, value |-> value, body |-> body, args |-> args]

\* new F(...a) on a function that no handler made: the engine creates the
\* instance from F.prototype, runs the body on it and hands on what the
\* body returned if that is an object, the instance otherwise.
ConstructOriginal(hp, f, a, returned) ==
    IF IsRef(returned) THEN Outcome("value", Undefined, returned, f, a)
    ELSE Outcome("instance", Get(hp[f], "prototype", Undefined), Undefined, f, a)

\* new c(...a) on a function made by createInstance, whose body takes the
\* branch of new.target: instance = Object.create(result.prototype),
\* method = value.apply(instance, args), return isNonObject(method) ?
\* instance : method.  When that is no object, the engine hands on the
\* object it created for the call itself.
createInstanceConstruct(hp, f, a, returned) ==
    LET prototype == Get(hp[f], "prototype", Undefined)
        call == PlainCall(hp, hp[f].data, PFresh, a)
        instance == Outcome("instance", prototype, Undefined, call.body,
                            call.args)
        method == returned
    IN  IF isNonObject(WordOf(method)) THEN instance
        ELSE IF IsRef(method)
             THEN Outcome("value", Undefined, method, call.body, call.args)
             ELSE Outcome("blank", prototype, Undefined, Undefined, Undefined)

\* Date, RegExp, ArrayBuffer, URL, URLSearchParams, FormData, Blob and File
\* build a new instance of their class from the internal contents of the
\* source; none of them touches visited.
HandlersLeaf(class, hp, vis, value) ==
    Returned(Len(hp) + 1,
             Append(hp, Obj(class, <<>>, <<>>, hp[value].items, hp[value].data)),
             vis, TRUE, class)

\* ---------------------------------------------------------------- binary data
\* The bytes of an ArrayBuffer are its items.  A view (a typed array or a
\* DataView) keeps three internal slots as its items: the buffer it reads,
\* its byteOffset, and its length, which a typed array counts in elements
\* and a DataView in bytes (byteLength).
TypedArrayClasses == {"Uint8Array", "Uint16Array"}

ViewClasses == TypedArrayClasses \cup {"DataView"}

BytesPerElement(class) == IF class = "Uint16Array" THEN 2 ELSE 1

ArrayBufferOf(bytes) == Obj("ArrayBuffer", <<>>, <<>>, bytes, NoData)

View(class, buffer, byteOffset, length) ==
    Obj(class, <<>>, <<>>, <<buffer, byteOffset, length>>, NoData)

\* buffer.slice(): a new ArrayBuffer with all the bytes of the buffer
BufferSlice(hp, buffer) == ArrayBufferOf(hp[buffer].items)

\* A variant that builds the new view on the buffer of the source.
HandlersDataViewShared(hp, vis, value) ==
    LET v == hp[value].items IN
    Returned(Len(hp) + 1, Append(hp, View("DataView", v[1], v[2], v[3])), vis,
             TRUE, "DataView")

\* new DataView(value.buffer.slice(), value.byteOffset, value.byteLength)
HandlersDataView(hp, vis, value) ==
    LET v == hp[value].items
        buffer == Len(hp) + 1
    IN  Returned(Len(hp) + 2,
                 hp \o <<BufferSlice(hp, v[1]),
                         View("DataView", buffer, v[2], v[3])>>,
                 vis, TRUE, "DataView")

\* new value.constructor(value.buffer.slice(), value.byteOffset, value.length)
HandlersTypedArray(hp, vis, value) ==
    LET v == hp[value].items
        buffer == Len(hp) + 1
    IN  Returned(Len(hp) + 2,
                 hp \o <<BufferSlice(hp, v[1]),
                         View(ConstructorOf(hp, value), buffer, v[2], v[3])>>,
                 vis, TRUE, "TypedArray")

HandlersIdentity(hp, vis, value) == Returned(value, hp, vis, TRUE, "Identity")

\* (value) => `custom-${value}`
CustomString(hp, vis, value) == Returned(PCustom, hp, vis, TRUE, "CustomString")

\* The handlers the README registers for types of its own.  The one for
\* Array begins with result = []; visited.set(value, result) and then clones
\* the elements that are present and not null.
HandlersCustomArrayUntracked(hp, vis, value) ==
    LET result == Len(hp) + 1 IN
    Entered(Frame("CustomArray", value, result), Append(hp, EmptyObj("Array")),
            vis, "CustomArray")

HandlersCustomArray(hp, vis, value) ==
    LET result == Len(hp) + 1 IN
    Entered(Frame("CustomArray", value, result), Append(hp, EmptyObj("Array")),
            visitedSet(vis, value, result), "CustomArray")

\* The one for MyCustomType begins with clone(value.data, visited), the
\* argument of new MyCustomType(...): there is no result yet, and nothing
\* is written to visited before that call.
HandlersMyCustomType(hp, vis, value) ==
    Entered(Frame("MyCustomType", value, Undefined), hp, vis, "MyCustomType")

\* A handler of the user's own for Object: (value) => `custom-${value}`
OverridingObject(hp, vis, value) ==
    Returned(PCustom, hp, vis, TRUE, "OverridingObject")

LeafHandlers == {"Date", "RegExp", "ArrayBuffer", "URL", "URLSearchParams",
                 "FormData", "Blob", "File"}

Invoke(handler, hp, vis, value) ==
    CASE handler = "Array" -> HandlersArray(hp, vis, value)
      [] handler = "Map" -> HandlersMap(hp, vis, value)
      [] handler = "Set" -> HandlersSet(hp, vis, value)
      [] handler = "Object" -> HandlersObject(hp, vis, value)
      [] handler = "Error" -> HandlersError(hp, vis, value)
      [] handler = "Function" -> HandlersFunction(hp, vis, value)
      [] handler = "AsyncFunction" -> HandlersAsyncFunction(hp, vis, value)
      [] handler = "GeneratorFunction" ->
            HandlersGeneratorFunction(hp, vis, value)
      [] handler = "AsyncGeneratorFunction" ->
            HandlersAsyncGeneratorFunction(hp, vis, value)
      [] handler = "DataView" -> HandlersDataView(hp, vis, value)
      [] handler = "TypedArray" -> HandlersTypedArray(hp, vis, value)
      [] handler = "Identity" -> HandlersIdentity(hp, vis, value)
      [] handler = "CustomString" -> CustomString(hp, vis, value)
      [] handler = "CustomArray" -> HandlersCustomArray(hp, vis, value)
      [] handler = "OverridingObject" -> OverridingObject(hp, vis, value)
      [] handler = "MyCustomType" -> HandlersMyCustomType(hp, vis, value)
      [] handler \in LeafHandlers -> HandlersLeaf(handler, hp, vis, value)

\* A variant that looks the handler up before it tests for a primitive.
cloneHandlerFirst(reg, hp, vis, value) ==
    LET handler == getHandler(reg, hp, value) IN
    IF IsRef(value) /\ visitedHas(vis, value)
    THEN Returned(visitedGet(vis, value), hp, vis, TRUE, "none")
    ELSE IF handler # "null" THEN Invoke(handler, hp, vis, value)
         ELSE IF isPrimitive(hp, value)
              THEN Returned(value, hp, vis, FALSE, "none")
              ELSE HandlersObject(hp, vis, value)

\* A variant whose lookup goes to a registry without the modifier's entries.
cloneDefaultRegistry(reg, hp, vis, value) ==
    IF isPrimitive(hp, value) THEN Returned(value, hp, vis, FALSE, "none")
    ELSE IF visitedHas(vis, value)
         THEN Returned(visitedGet(vis, value), hp, vis, TRUE, "none")
         ELSE LET handler == getHandler(createDefaultRegistry, hp, value) IN
              IF handler # "null" THEN Invoke(handler, hp, vis, value)
              ELSE HandlersObject(hp, vis, value)

\* A variant that asks the registry before it asks the tracker.
cloneLookupFirst(reg, hp, vis, value) ==
    IF isPrimitive(hp, value) THEN Returned(value, hp, vis, FALSE, "none")
    ELSE LET handler == getHandler(reg, hp, value) IN
         IF handler # "null" THEN Invoke(handler, hp, vis, value)
         ELSE IF visitedHas(vis, value)
              THEN Returned(visitedGet(vis, value), hp, vis, TRUE, "none")
              ELSE HandlersObject(hp, vis, value)

\* A variant whose fallback is the handler the registry holds for Object.
cloneFallbackRegistered(reg, hp, vis, value) ==
    IF isPrimitive(hp, value) THEN Returned(value, hp, vis, FALSE, "none")
    ELSE IF visitedHas(vis, value)
         THEN Returned(visitedGet(vis, value), hp, vis, TRUE, "none")
         ELSE LET handler == getHandler(reg, hp, value) IN
              IF handler # "null" THEN Invoke(handler, hp, vis, value)
              ELSE Invoke(reg["Object"], hp, vis, value)

\* ---------------------------------------------------------------- clone
\* The closure returned by createCloneFunction, up to the point where it
\* returns or where the handler it invoked reaches its first child.
clone(reg, hp, vis, value) ==
    IF isPrimitive(hp, value) THEN Returned(value, hp, vis, FALSE, "none")
    ELSE IF visitedHas(vis, value)
         THEN Returned(visitedGet(vis, value), hp, vis, TRUE, "none")
         ELSE LET handler == getHandler(reg, hp, value) IN
              IF handler # "null" THEN Invoke(handler, hp, vis, value)
              ELSE HandlersObject(hp, vis, value)

\* ---------------------------------------------------------------- loops
Top == stack[Len(stack)]

\* The own keys in the order copyProperties enumerates them.
KeyOrder(o) == OwnPropertyNames(o) \o OwnPropertySymbols(o)

\* How many iterations the loop of a frame makes.
Count(hp, fr) ==
    CASE fr.h = "Array" -> Len(hp[fr.src].items)
      [] fr.h = "Set" -> Len(hp[fr.src].items)
      [] fr.h = "Map" -> 2 * Len(hp[fr.src].items)
      [] fr.h = "copyProperties" -> Len(hp[fr.src].props)
      [] fr.h = "CustomArray" -> Len(hp[fr.src].items)
      [] fr.h = "MyCustomType" -> 1

\* result.set(key, item) and result.add(item)
MapSet(o, key, item) ==
    IF \E j \in 1..Len(o.mkeys) : o.mkeys[j] = key
    THEN [o EXCEPT !.items[CHOOSE j \in 1..Len(o.mkeys) : o.mkeys[j] = key] = item]
    ELSE [o EXCEPT !.mkeys = Append(@, key), !.items = Append(@, item)]

SetAdd(o, item) ==
    IF \E j \in 1..Len(o.items) : o.items[j] = item THEN o
    ELSE [o EXCEPT !.items = Append(@, item)]

\* result[i] = r on an array, which grows to hold the index
SetIndex(items, i, r) ==
    [k \in 1..(IF i > Len(items) THEN i ELSE Len(items)) |->
        IF k = i THEN r ELSE IF k <= Len(items) THEN items[k] ELSE Hole]

\* The value the current iteration of a frame hands to clone.
Child(hp, fr) ==
    CASE fr.h = "Array" -> hp[fr.src].items[fr.i]
      [] fr.h = "CustomArray" -> hp[fr.src].items[fr.i]
      [] fr.h = "MyCustomType" -> Get(hp[fr.src], "data", Undefined)
      [] fr.h = "Set" -> hp[fr.src].items[fr.i]
      [] fr.h = "Map" -> IF fr.i % 2 = 1 THEN hp[fr.src].mkeys[(fr.i + 1) \div 2]
                         ELSE hp[fr.src].items[fr.i \div 2]
      [] fr.h = "copyProperties" ->
            Get(hp[fr.src], hp[fr.src].props[KeyOrder(hp[fr.src])[fr.i]].key,
                Undefined)

\* A variant that writes the cloned child into the source object.
StoreInSource(hp, fr, r) ==
    CASE fr.h = "Array" -> [hp EXCEPT ![fr.src].items[fr.i] = r]
      [] fr.h = "Set" -> [hp EXCEPT ![fr.dst] = SetAdd(@, r)]
      [] fr.h = "Map" -> IF fr.i % 2 = 1 THEN hp
                         ELSE [hp EXCEPT ![fr.dst] = MapSet(@, fr.pk, r)]
      [] fr.h = "copyProperties" ->
            [hp EXCEPT ![fr.src] =
                SetProperty(@, hp[fr.src].props[KeyOrder(hp[fr.src])[fr.i]].key, r)]

\* What the current iteration does with the value clone returned:
\* result[key] = r, result.add(r), or result.set(key, r) once both the key
\* and the item of the entry are cloned.
Store(hp, fr, r) ==
    CASE fr.h = "Array" -> [hp EXCEPT ![fr.dst].items[fr.i] = r]
      [] fr.h = "CustomArray" ->
            [hp EXCEPT ![fr.dst].items = SetIndex(@, fr.i, r)]
      [] fr.h = "MyCustomType" -> hp
      [] fr.h = "Set" -> [hp EXCEPT ![fr.dst] = SetAdd(@, r)]
      [] fr.h = "Map" -> IF fr.i % 2 = 1 THEN hp
                         ELSE [hp EXCEPT ![fr.dst] = MapSet(@, fr.pk, r)]
      [] fr.h = "copyProperties" ->
            [hp EXCEPT ![fr.dst] =
                SetProperty(@, hp[fr.src].props[KeyOrder(hp[fr.src])[fr.i]].key, r)]

Advance(fr, r) ==
    [fr EXCEPT !.i = @ + 1,
               !.pk = IF (fr.h = "Map" /\ fr.i % 2 = 1) \/ fr.h = "MyCustomType"
                      THEN r ELSE @]

Logged(value, out) ==
    [arg |-> value, ret |-> out.val, tracked |-> out.tracked,
     looked |-> out.looked, handler |-> out.handler]

\* One iteration whose body is a clone call: the call returns at once (a
\* primitive, a tracked reference, a handler without a loop) and its value is
\* stored, or the handler it invokes becomes the innermost frame.
CloneChild ==
    \E fr \in {Top} : \E value \in {Child(heap, fr)} :
    \E out \in {clone(registry[fn], heap, visited, value)} :
        /\ visited' = out.visited
        /\ invoked' = IF out.handler # "none"
                      THEN Append(invoked, Logged(value, out)) ELSE invoked
        /\ IF out.done
           THEN /\ heap' = Store(out.heap, fr, out.val)
                /\ stack' = [stack EXCEPT ![Len(stack)] = Advance(fr, out.val)]
                /\ log' = log \cup {Logged(value, out)}
           ELSE /\ heap' = out.heap
                /\ stack' = Append(stack, out.frame)
                /\ log' = log
        /\ UNCHANGED <<registry, pc, fn, arg, base, results, calls>>

\* An iteration that makes no clone call.
Skip(hp) ==
    /\ heap' = hp
    /\ stack' = [stack EXCEPT ![Len(stack)].i = @ + 1]
    /\ UNCHANGED <<registry, pc, fn, arg, visited, base, invoked, log, results,
                   calls>>

Looping(h) ==
    /\ pc = "running"
    /\ Top.h = h
    /\ Top.i <= Count(heap, Top)

\* Handlers.Array: for (key < length) if (key in value) result[key] = clone(...)
ArrayStep ==
    /\ Looping("Array")
    /\ IF Child(heap, Top) # Hole THEN CloneChild ELSE Skip(heap)

\* Handlers.Map: value.forEach((item, key) => result.set(clone(key), clone(item)))
MapStep ==
    /\ Looping("Map")
    /\ CloneChild

\* Handlers.Set: value.forEach((item) => result.add(clone(item)))
SetStep ==
    /\ Looping("Set")
    /\ CloneChild

\* The keys of a function that say what it is, and the well-known symbols.
ReflectiveKeys == {"constructor", "length", "arguments", "caller", "callee"}

WellKnownSymbols == {"@@iterator"}

\* A variant that also passes over the reflective keys of a callable and
\* over the well-known symbol keys of any object.
CopyPropertiesStepReflective ==
    /\ Looping("copyProperties")
    /\ LET value == heap[Top.src]
           descriptor == value.props[KeyOrder(value)[Top.i]]
           key == descriptor.key
       IN  IF \/ key = "prototype"
              \/ key \in WellKnownSymbols
              \/ key \in ReflectiveKeys /\ value.proto \in CallableProtos
           THEN Skip(heap)
           ELSE IF isPropertyAccessor(descriptor, key)
                THEN Skip([heap EXCEPT ![Top.dst] = DefineProperty(@, descriptor)])
                ELSE CloneChild

\* copyProperties.enumerate: one key of the names, then of the symbols.
CopyPropertiesStep ==
    /\ Looping("copyProperties")
    /\ LET value == heap[Top.src]
           descriptor == value.props[KeyOrder(value)[Top.i]]
           key == descriptor.key
       IN  IF key = "prototype" THEN Skip(heap)
           ELSE IF isPropertyAccessor(descriptor, key)
                THEN Skip([heap EXCEPT ![Top.dst] = DefineProperty(@, descriptor)])
                ELSE CloneChild

\* The innermost handler returns its result: the caller stores it, or the
\* top-level call returns.
Return ==
    /\ pc = "running"
    /\ Top.h # "MyCustomType"
    /\ Top.i > Count(heap, Top)
    /\ LET fr == Top
           rest == SubSeq(stack, 1, Len(stack) - 1)
           entry == [arg |-> fr.src, ret |-> fr.dst, tracked |-> TRUE,
                     looked |-> TRUE,
                     handler |-> invoked[CHOOSE j \in 1..Len(invoked) :
                                           invoked[j].arg = fr.src
                                           /\ invoked[j].ret = fr.dst].handler]
       IN  /\ log' = log \cup {entry}
           /\ IF rest = <<>>
              THEN /\ heap' = heap
                   /\ stack' = rest
                   /\ pc' = "done"
                   /\ results' = Append(results,
                                        [fn |-> fn, arg |-> arg, ret |-> fr.dst])
              ELSE LET caller == rest[Len(rest)] IN
                   /\ heap' = Store(heap, caller, fr.dst)
                   /\ stack' = [rest EXCEPT ![Len(rest)] = Advance(caller, fr.dst)]
                   /\ pc' = pc
                   /\ results' = results
    /\ UNCHANGED <<registry, fn, arg, visited, base, invoked, calls>>

\* A top-level call clone(value) of one of the clone functions, with no
\* visited argument: the WeakMap is created by the call.  The calls of one
\* behaviour clone the same value with the same function.
Call(f, value) ==
    /\ pc \in {"idle", "done"}
    /\ Len(results) < MaxCalls
    /\ results # <<>> => f = fn /\ value = arg
    /\ \E out \in {clone(registry[f], heap, <<>>, value)} :
       /\ heap' = out.heap
       /\ visited' = out.visited
       /\ fn' = f
       /\ arg' = value
       /\ base' = Len(heap)
       /\ invoked' = IF out.handler # "none" THEN <<Logged(value, out)>>
                     ELSE <<>>
       /\ IF out.done
          THEN /\ pc' = "done"
               /\ stack' = <<>>
               /\ log' = {Logged(value, out)}
               /\ results' = Append(results,
                                    [fn |-> f, arg |-> value, ret |-> out.val])
          ELSE /\ pc' = "running"
               /\ stack' = <<out.frame>>
               /\ log' = {}
               /\ results' = results
    /\ UNCHANGED <<registry, calls>>

\* ---------------------------------------------------------------- inputs
\* The source graph: NSrc objects at the addresses 1..NSrc whose slots hold
\* a primitive or any of the NSrc references.
SlotValues == (1..NSrc) \cup {PStr}

KeyName(i) == <<"a", "b", "c", "d">>[i]

\* Up to n ordinary properties a, b, ...
OrdinaryProps(n) ==
    UNION {{[i \in 1..m |-> DataProp(KeyName(i), f[i])] :
               f \in [1..m -> SlotValues]} : m \in 0..n}

\* One property with a key or a descriptor that copyProperties treats apart.
SpecialProps ==
    UNION {{<<DataProp("prototype", v)>>,
            <<DataProp("__proto__", v)>>,
            <<DataProp("@@sym", v)>>,
            <<DataProp("@@iterator", v)>>,
            <<Prop("a", FALSE, FALSE, TRUE, TRUE, v)>>,
            <<Prop("a", FALSE, TRUE, FALSE, TRUE, v)>>,
            <<Prop("a", FALSE, TRUE, TRUE, FALSE, v)>>} : v \in SlotValues}
    \cup {<<Prop("a", TRUE, TRUE, FALSE, TRUE, Undefined)>>}

\* Error and one of its subclasses, built in (TypeError) or user-defined
ErrorClasses == {"Error", "TypeError"}

ErrorProps == <<HiddenProp("stack", PStr), HiddenProp("message", PStr)>>

FunctionProps ==
    <<Prop("length", FALSE, FALSE, FALSE, TRUE, PStr),
      Prop("name", FALSE, FALSE, FALSE, TRUE, PStr)>>

\* F.prototype, when the function has one
PrototypeProps ==
    {<<>>} \cup {<<Prop("prototype", FALSE, FALSE, TRUE, FALSE, v)>> :
                    v \in 1..NSrc}

\* array elements: a slot value, an explicitly stored undefined, or no
\* element at the index
Elements(n) ==
    UNION {[1..m -> SlotValues \cup {Undefined, Hole}] : m \in 0..n}

Members(n) ==
    UNION {{f \in [1..m -> SlotValues] :
               \A i, j \in 1..m : i # j => f[i] # f[j]} : m \in 0..n}

Shapes(n, special) ==
    {Obj("Object", ps, <<>>, <<>>, NoData) : ps \in OrdinaryProps(n) \cup special}
    \cup {Obj(proto, ps, <<>>, <<>>, NoData) :
             proto \in {"Klass", "null"}, ps \in OrdinaryProps(1)}
    \cup {Obj(class, ErrorProps \o ps, <<>>, <<>>, NoData) :
             class \in ErrorClasses, ps \in OrdinaryProps(1)}
    \cup {Obj("Function", FunctionProps \o pp \o ps, <<>>, <<>>, NoData) :
             pp \in PrototypeProps, ps \in OrdinaryProps(1)}
    \cup {Obj("AsyncFunction", FunctionProps, <<>>, <<>>, NoData)}
    \cup {Obj(class, FunctionProps \o pp, <<>>, <<>>, NoData) :
             class \in {"GeneratorFunction", "AsyncGeneratorFunction"},
             pp \in PrototypeProps \ {<<>>}}
    \cup {Obj("Array", <<>>, <<>>, items, NoData) : items \in Elements(n)}
    \cup {Obj("Set", <<>>, <<>>, items, NoData) : items \in Members(n)}
    \cup {Obj("Map", <<>>, mkeys, items, NoData) :
             mkeys \in Members(MaxEntries),
             items \in UNION {[1..m -> SlotValues] : m \in 0..MaxEntries}}
    \cup {Obj(proto, <<>>, <<>>, <<>>, 1) : proto \in {"Date", "WeakMap", "String"}}
    \cup {Obj(proto, <<DataProp("constructor", WeakMapCtor)>>, <<>>, <<>>,
               NoData) : proto \in {"Object", "Klass"}}
    \cup {Obj("Promise", <<>>, <<>>, <<>>, Pending)}
    \cup {Obj("Promise", <<>>, <<>>, <<v>>, state) :
             v \in SlotValues, state \in {Fulfilled, Rejected}}

WellFormed(o) == Len(o.mkeys) = Len(o.items) \/ o.proto # "Map"

SourceGraphs ==
    {g \in [1..NSrc -> Shapes(MaxSlots, SpecialProps)] :
        /\ \A a \in 1..NSrc : WellFormed(g[a])
        /\ \A a \in 2..NSrc : g[a] \in Shapes(1, {})}

TopLevelArgs == (1..NSrc) \cup {Undefined, Null, PStr}

Init ==
    /\ heap \in SourceGraphs
    /\ registry = [f \in CloneFunctions |->
                      IF f = "default" THEN createDefaultRegistry
                      ELSE CustomModifier(createDefaultRegistry)]
    /\ pc = "idle"
    /\ fn = "default"
    /\ arg = Undefined
    /\ visited = <<>>
    /\ stack = <<>>
    /\ base = NSrc
    /\ invoked = <<>>
    /\ log = {}
    /\ results = <<>>
    /\ calls = <<>>

Next ==
    \/ \E f \in CloneFunctions, value \in TopLevelArgs : Call(f, value)
    \/ ArrayStep
    \/ MapStep
    \/ SetStep
    \/ CopyPropertiesStep
    \/ Return

Spec == Init /\ [][Next]_vars

\* ---------------------------------------------------------------- registries
\* The registries in the hands of user code: the one of each clone function
\* it made with createCloneFunction, kept by the modifier, and one built with
\* new CloneRegistry().  The registry of the default clone is a local of
\* createCloneFunction that no user code holds.
MaxRegistrations == 2

MadeLater == {"custom", "kept"}

Standalone == "new"

RegisteredConstructors == {"String", "Klass"}

RegisteredHandlers == {"CustomString", "Identity"}

\* The third argument of a setHandler call: absent, or a predicate that
\* rejects every value.
ValidatorArguments == {"none", "rejects"}

\* The modifier given to createCloneFunction: the one of the test for
\* "custom", one that only keeps the registry for "kept".
ModifierOf(f, reg) == IF f = "custom" THEN CustomModifier(reg) ELSE reg

\* createCloneFunction(modifier): const registry = createDefaultRegistry();
\* if (registryModifier) registryModifier(registry)
createCloneFunction(f) ==
    /\ f \notin DOMAIN registry
    /\ registry' = (f :> ModifierOf(f, createDefaultRegistry)) @@ registry
    /\ UNCHANGED <<heap, pc, fn, arg, visited, stack, base, invoked, log,
                   results, calls>>

\* new CloneRegistry()
NewCloneRegistry ==
    /\ Standalone \notin DOMAIN registry
    /\ registry' = (Standalone :> NewRegistry) @@ registry
    /\ UNCHANGED <<heap, pc, fn, arg, visited, stack, base, invoked, log,
                   results, calls>>

\* A variant in which all the clone functions share one registry object.
RegisterShared(r, constructor, handler, validator) ==
    /\ r \in DOMAIN registry \ {"default"}
    /\ Len(calls) < MaxRegistrations
    /\ registry' = [g \in DOMAIN registry |->
                       IF g = r \/ Standalone \notin {g, r}
                       THEN setHandler(registry[g], constructor, handler)
                       ELSE registry[g]]
    /\ calls' = Append(calls, [on |-> r, constructor |-> constructor,
                               handler |-> handler, validator |-> validator,
                               ret |-> r])
    /\ UNCHANGED <<heap, pc, fn, arg, visited, stack, base, invoked, log,
                   results>>

\* registry.setHandler(constructor, handler, validator) on the registry r:
\* setHandler has two parameters, a third argument is dropped by the call;
\* the handlers map of r alone is written and the call returns r.
Register(r, constructor, handler, validator) ==
    /\ r \in DOMAIN registry \ {"default"}
    /\ Len(calls) < MaxRegistrations
    /\ registry' = [registry EXCEPT ![r] = setHandler(@, constructor, handler)]
    /\ calls' = Append(calls, [on |-> r, constructor |-> constructor,
                               handler |-> handler, validator |-> validator,
                               ret |-> r])
    /\ UNCHANGED <<heap, pc, fn, arg, visited, stack, base, invoked, log,
                   results>>

\* The values handed to getHandler and clone: one object of each shape
\* without slots, at every address.
RegistryHeaps ==
    {g \in [1..NSrc -> Shapes(0, {})] :
        WellFormed(g[1]) /\ \A a \in 1..NSrc : g[a] = g[1]}

RegistryInit ==
    /\ heap \in RegistryHeaps
    /\ registry = [f \in {"default"} |-> createDefaultRegistry]
    /\ pc = "idle"
    /\ fn = "default"
    /\ arg = Undefined
    /\ visited = <<>>
    /\ stack = <<>>
    /\ base = NSrc
    /\ invoked = <<>>
    /\ log = {}
    /\ results = <<>>
    /\ calls = <<>>

RegistryNext ==
    \/ \E f \in MadeLater : createCloneFunction(f)
    \/ NewCloneRegistry
    \/ \E r \in MadeLater \cup {Standalone}, constructor \in RegisteredConstructors,
          handler \in RegisteredHandlers, validator \in ValidatorArguments :
          Register(r, constructor, handler, validator)

RegistrySpec == RegistryInit /\ [][RegistryNext]_vars

\* ---------------------------------------------------------------- buffers
\* One ArrayBuffer of MaxBytes bytes, zero-filled as new ArrayBuffer(n)
\* makes it, and one view on it; user code writes bytes into any buffer
\* between the calls of clone.
MaxBytes == 3

ByteValues == {0, 1}

Views(buffer, byteLength) ==
    {View(class, buffer, byteOffset, length) :
        class \in ViewClasses, byteOffset \in 0..byteLength,
        length \in 0..byteLength} 

ValidView(hp, v) ==
    /\ v.items[2] % BytesPerElement(v.proto) = 0
    /\ v.items[2] + v.items[3] * BytesPerElement(v.proto)
          <= Len(hp[v.items[1]].items)

BufferInit ==
    /\ heap \in {<<ArrayBufferOf([i \in 1..MaxBytes |-> 0]), v>> :
                     v \in Views(1, MaxBytes)}
    /\ ValidView(heap, heap[2])
    /\ registry = [f \in CloneFunctions |->
                      IF f = "default" THEN createDefaultRegistry
                      ELSE CustomModifier(createDefaultRegistry)]
    /\ pc = "idle"
    /\ fn = "default"
    /\ arg = Undefined
    /\ visited = <<>>
    /\ stack = <<>>
    /\ base = 2
    /\ invoked = <<>>
    /\ log = {}
    /\ results = <<>>
    /\ calls = <<>>

\* view[index] = byte, dataView.setInt8(index, byte): one byte of a buffer
\* is overwritten.
Write(buffer, index, byte) ==
    /\ pc \in {"idle", "done"}
    /\ buffer \in 1..Len(heap)
    /\ heap[buffer].proto = "ArrayBuffer"
    /\ index \in 1..Len(heap[buffer].items)
    /\ heap' = [heap EXCEPT ![buffer].items[index] = byte]
    /\ UNCHANGED <<registry, pc, fn, arg, visited, stack, base, invoked, log,
                   results, calls>>

BufferNext ==
    \/ \E f \in CloneFunctions, value \in 1..2 : Call(f, value)
    \/ \E buffer \in 1..(2 + 2 * MaxCalls), index \in 1..MaxBytes,
          byte \in ByteValues : Write(buffer, index, byte)

BufferSpec == BufferInit /\ [][BufferNext]_vars

\* ---------------------------------------------------------------- custom handlers
\* The clone function the README builds with handlers of its own: one for
\* Array that registers its result before it recurses, one for the class
\* MyCustomType that recurses first and registers afterwards.
ReadmeModifier(reg) ==
    setHandler(setHandler(reg, "Array", "CustomArray"),
               "MyCustomType", "MyCustomType")

\* How deep the handlers may nest before the engine's call stack is full.
MaxDepth == 4

\* Custom Array handler: if (i in value && value[i] !== null) result[i] = clone(...)
CustomArrayStep ==
    /\ Looping("CustomArray")
    /\ IF Child(heap, Top) \notin {Hole, Null} THEN CloneChild ELSE Skip(heap)

\* MyCustomType handler: clone(value.data, visited)
MyCustomTypeStep ==
    /\ Looping("MyCustomType")
    /\ Len(stack) < MaxDepth
    /\ CloneChild

\* MyCustomType handler, after the recursive call: result = new
\* MyCustomType(data), result.timestamp = value.timestamp,
\* visited.set(value, result), return result.
MyCustomTypeReturn ==
    /\ pc = "running"
    /\ Top.h = "MyCustomType"
    /\ Top.i > Count(heap, Top)
    /\ LET fr == Top
           rest == SubSeq(stack, 1, Len(stack) - 1)
           result == Len(heap) + 1
           made == Obj("MyCustomType",
                       <<DataProp("data", fr.pk),
                         DataProp("timestamp",
                                  Get(heap[fr.src], "timestamp", Undefined))>>,
                       <<>>, <<>>, NoData)
           entry == [arg |-> fr.src, ret |-> result, tracked |-> TRUE,
                     looked |-> TRUE, handler |-> "MyCustomType"]
       IN  /\ log' = log \cup {entry}
           /\ visited' = visitedSet(visited, fr.src, result)
           /\ IF rest = <<>>
              THEN /\ heap' = Append(heap, made)
                   /\ stack' = rest
                   /\ pc' = "done"
                   /\ results' = Append(results,
                                        [fn |-> fn, arg |-> arg, ret |-> result])
              ELSE LET caller == rest[Len(rest)] IN
                   /\ heap' = Store(Append(heap, made), caller, result)
                   /\ stack' = [rest EXCEPT ![Len(rest)] = Advance(caller, result)]
                   /\ pc' = pc
                   /\ results' = results
    /\ UNCHANGED <<registry, fn, arg, base, invoked, calls>>

\* The values of the README's examples: instances of MyCustomType, arrays
\* (with holes and nulls) and plain objects that refer to each other.
CustomShapes ==
    {Obj("MyCustomType", <<DataProp("data", v), DataProp("timestamp", PStr)>>,
         <<>>, <<>>, NoData) : v \in SlotValues}
    \cup {Obj("Array", <<>>, <<>>, items, NoData) :
             items \in UNION {[1..m -> SlotValues \cup {Null, Hole}] :
                                m \in 0..MaxSlots}}
    \cup {Obj("Object", ps, <<>>, <<>>, NoData) : ps \in OrdinaryProps(MaxSlots)}

CustomInit ==
    /\ heap \in [1..NSrc -> CustomShapes]
    /\ registry = [f \in {"readme"} |-> ReadmeModifier(createDefaultRegistry)]
    /\ pc = "idle"
    /\ fn = "readme"
    /\ arg = Undefined
    /\ visited = <<>>
    /\ stack = <<>>
    /\ base = NSrc
    /\ invoked = <<>>
    /\ log = {}
    /\ results = <<>>
    /\ calls = <<>>

CustomNext ==
    \/ \E value \in 1..NSrc : Call("readme", value)
    \/ CustomArrayStep
    \/ MyCustomTypeStep
    \/ MyCustomTypeReturn
    \/ CopyPropertiesStep
    \/ Return

CustomSpec == CustomInit /\ [][CustomNext]_vars

\* ---------------------------------------------------------------- tracker reuse
\* The caller keeps a WeakMap m of its own, empty or seeded with one entry,
\* and passes it as the second argument of every call: clone(value, m).
\* Here visited is that WeakMap.
SeedTargets == (1..NSrc) \cup {PStr}

SeededTrackers ==
    {<<>>} \cup {visitedSet(<<>>, v, x) : v \in 1..NSrc, x \in SeedTargets}

TrackerShapes ==
    {o \in Shapes(1, {}) :
        o.proto \in {"Object", "Array", "Set", "Date", "WeakMap"}}

TrackerInit ==
    /\ heap \in [1..NSrc -> TrackerShapes]
    /\ registry = [f \in CloneFunctions |->
                      IF f = "default" THEN createDefaultRegistry
                      ELSE CustomModifier(createDefaultRegistry)]
    /\ pc = "idle"
    /\ fn = "default"
    /\ arg = Undefined
    /\ visited \in SeededTrackers
    /\ stack = <<>>
    /\ base = NSrc
    /\ invoked = <<>>
    /\ log = {}
    /\ results = <<>>
    /\ calls = <<>>

\* A top-level call clone(value, m): visited is given, so the call makes no
\* WeakMap of its own.  The calls of one behaviour use the same function.
CallWithTracker(f, value) ==
    /\ pc \in {"idle", "done"}
    /\ Len(results) < MaxCalls
    /\ results # <<>> => f = fn
    /\ \E out \in {clone(registry[f], heap, visited, value)} :
       /\ heap' = out.heap
       /\ visited' = out.visited
       /\ fn' = f
       /\ arg' = value
       /\ base' = Len(heap)
       /\ invoked' = IF out.handler # "none" THEN <<Logged(value, out)>>
                     ELSE <<>>
       /\ IF out.done
          THEN /\ pc' = "done"
               /\ stack' = <<>>
               /\ log' = {Logged(value, out)}
               /\ results' = Append(results,
                                    [fn |-> f, arg |-> value, ret |-> out.val])
          ELSE /\ pc' = "running"
               /\ stack' = <<out.frame>>
               /\ log' = {}
               /\ results' = results
    /\ UNCHANGED <<registry, calls>>

TrackerNext ==
    \/ \E f \in CloneFunctions, value \in TopLevelArgs : CallWithTracker(f, value)
    \/ ArrayStep
    \/ SetStep
    \/ CopyPropertiesStep
    \/ Return

TrackerSpec == TrackerInit /\ [][TrackerNext]_vars

\* ---------------------------------------------------------------- overriding Object
\* A clone function whose registry modifier replaces the handler of Object
\* by one of the user's own.
ObjectModifier(reg) == setHandler(reg, "Object", "OverridingObject")

\* Plain objects, instances of a class, null-prototype objects and
\* instances of built-ins without a handler, referring to each other.
OverrideShapes ==
    {o \in Shapes(1, {}) : o.proto \in {"Object", "Klass", "null", "Promise"}}

OverrideInit ==
    /\ heap \in [1..NSrc -> OverrideShapes]
    /\ registry = [f \in {"override"} |-> ObjectModifier(createDefaultRegistry)]
    /\ pc = "idle"
    /\ fn = "override"
    /\ arg = Undefined
    /\ visited = <<>>
    /\ stack = <<>>
    /\ base = NSrc
    /\ invoked = <<>>
    /\ log = {}
    /\ results = <<>>
    /\ calls = <<>>

OverrideNext ==
    \/ \E value \in TopLevelArgs : Call("override", value)
    \/ CopyPropertiesStep
    \/ Return

OverrideSpec == OverrideInit /\ [][OverrideNext]_vars

\* ---------------------------------------------------------------- reading a heap
Sources == 1..NSrc

Done == pc = "done"

WeakProtos == {"WeakMap", "WeakSet", "WeakRef"}

IsWeak(hp, v) == IsRef(v) /\ hp[v].proto \in WeakProtos

\* The types plain-object, array, Map and Set: the mutable containers.
MutableProtos == {"Object", "Array", "Map", "Set"}

\* The source references some handler registered in the tracker.
Tracked == DOMAIN visited

\* The places of an object that hold a value: an own data property, an
\* array index or Set member or Map value (item), a Map key (mkey).
Places(o) ==
    {[k |-> "prop", key |-> o.props[j].key, i |-> 0] :
        j \in {n \in 1..Len(o.props) : ~o.props[n].acc}}
    \cup {[k |-> "item", key |-> "", i |-> j] : j \in 1..Len(o.items)}
    \cup {[k |-> "mkey", key |-> "", i |-> j] : j \in 1..Len(o.mkeys)}

\* The value at a place of an object, Undefined when the object has no
\* such place.
At(o, pl) ==
    CASE pl.k = "prop" ->
            IF HasOwn(o, pl.key) /\ ~o.props[OwnIndex(o, pl.key)].acc
            THEN o.props[OwnIndex(o, pl.key)].val ELSE Undefined
      [] pl.k = "item" -> IF pl.i <= Len(o.items) THEN o.items[pl.i] ELSE Undefined
      [] pl.k = "mkey" -> IF pl.i <= Len(o.mkeys) THEN o.mkeys[pl.i] ELSE Undefined

\* A property place whose descriptor is enumerable, writable, configurable.
OrdinaryFlags(o, pl) ==
    pl.k = "prop" =>
        LET d == o.props[OwnIndex(o, pl.key)] IN d.e /\ d.w /\ d.c

\* The places claim C1 speaks of: ordinary own properties of plain objects
\* and errors, array elements, Map keys and values, Set members.
CyclePlaces(o) ==
    {pl \in Places(o) :
        /\ OrdinaryFlags(o, pl)
        /\ o.proto \in {"Object", "Error", "Array", "Map", "Set"}}

RECURSIVE ReachVia(_, _, _)
ReachVia(hp, S, n) ==
    IF n = 0 THEN S
    ELSE ReachVia(hp,
                  S \cup {v \in Sources :
                             \E x \in S : \E pl \in CyclePlaces(hp[x]) :
                                 At(hp[x], pl) = v},
                  n - 1)

\* y lies on a cycle through x made of such places
LeadsBack(hp, y, x) == x \in ReachVia(hp, {y}, NSrc)

\* ---------------------------------------------------------------- claims

\* C1: within one call of the default clone, every cycle of the source that
\* runs through ordinary own properties of plain objects and errors, array
\* elements, Map keys/values and Set members is reproduced on the
\* duplicates: each place on such a cycle holds, in the duplicate of its
\* object, the duplicate of what it holds in the source.
C1_CyclePreservation ==
    (Done /\ fn = "default") =>
        \A x \in Tracked : \A pl \in CyclePlaces(heap[x]) :
            LET y == At(heap[x], pl) IN
            (IsRef(y) /\ LeadsBack(heap, y, x)) =>
                /\ y \in Tracked
                /\ At(heap[visited[x]], pl) = visited[y]

\* C2 as stated: the same source reference of any non-primitive type,
\* reached at two places in one call of the default clone, gets the
\* identical duplicate at both.
C2_SharedAnyType ==
    fn = "default" =>
        \A p, q \in log : (IsRef(p.arg) /\ p.arg = q.arg) => p.ret = q.ret

\* The default handlers that return a new instance without registering it
\* in the tracker.
UntrackedHandlers == LeafHandlers \cup {"TypedArray", "DataView"}

KeepsShared(hp, v) ==
    IsRef(v) /\ getHandler(createDefaultRegistry, hp, v) \notin UntrackedHandlers

\* C2 (amended): the same source reference, reached at two places in one
\* call of the default clone, gets the identical duplicate at both, unless
\* its handler is one that registers nothing in the tracker (Date, RegExp,
\* ArrayBuffer, typed array, DataView, URL, URLSearchParams, FormData, Blob,
\* File).
C2_SharedTracked ==
    fn = "default" =>
        \A p, q \in log :
            (KeepsShared(heap, p.arg) /\ p.arg = q.arg) => p.ret = q.ret

C2_Witness ==
    /\ Done /\ fn = "default"
    /\ \E p, q \in log :
          /\ p # q /\ p.arg = q.arg /\ KeepsShared(heap, p.arg)
          /\ p.ret = q.ret /\ p.ret # p.arg

\* C3 as stated: after a call of the default clone, no place of a duplicate
\* (an own data property whatever its flags, an array index, a Map entry, a
\* Set member) holds the plain object, array, Map or Set that the same place
\* of its source holds.
C3_IndependentMutation ==
    (Done /\ fn = "default") =>
        \A x \in Tracked : \A pl \in Places(heap[x]) :
            LET y == At(heap[x], pl) IN
            (IsRef(y) /\ heap[y].proto \in MutableProtos) =>
                At(heap[visited[x]], pl) # y

\* The handler of a source reference the tracker holds ran once.
HandlerOnce ==
    \A i, j \in 1..Len(invoked) :
        (i # j /\ invoked[i].arg \in Tracked) => invoked[i].arg # invoked[j].arg

\* The iterations a frame has still to make, and their sum over the stack.
FrameWork(hp, fr) == Count(hp, fr) - fr.i + 1

RECURSIVE SumWork(_, _)
SumWork(hp, frames) ==
    IF frames = <<>> THEN 0
    ELSE FrameWork(hp, Head(frames)) + SumWork(hp, Tail(frames))

\* One more than the iterations the handler of any source object makes.
Size(o) == Len(o.props) + Len(o.items) + Len(o.mkeys)

UnitWork ==
    1 + Size(heap[CHOOSE a \in Sources :
                     \A b \in Sources : Size(heap[b]) <= Size(heap[a])])

\* What is left of the current call: the source references no handler has
\* registered yet, each worth a whole handler, and the iterations left to
\* the handlers that are running.
Work == UnitWork * Cardinality(Sources \ Tracked) + SumWork(heap, stack)

\* C4: a call of the default clone terminates whatever the cycles and the
\* shared references of the source: the handler of each tracked source
\* reference is invoked at most once, a running call always has a handler
\* to continue, and every step of the call either returns from it or
\* lowers the work that is left, which is a natural number bounded by the
\* number of distinct source references.
C4_Termination ==
    /\ [](fn = "default" => HandlerOnce)
    /\ [](pc = "running" => (stack # <<>> /\ Work >= 0))
    /\ [][(pc = "running" /\ fn = "default") =>
              (pc' = "done" \/ Work' < Work)]_vars

C4_Witness ==
    /\ Done /\ fn = "default" /\ IsRef(arg) /\ arg \in Tracked
    /\ \E pl \in CyclePlaces(heap[arg]) :
          IsRef(At(heap[arg], pl)) /\ LeadsBack(heap, At(heap[arg], pl), arg)
    /\ \E p \in log : p.handler = "none" /\ p.arg \in Tracked

\* C5: every clone function returns a primitive as it is, and evaluates
\* neither the tracker nor the registry for it, whatever handlers the
\* registry holds.
C5_PrimitiveIdentity ==
    /\ \A p \in log :
          isPrimitive(heap, p.arg) =>
              p.ret = p.arg /\ ~p.tracked /\ ~p.looked
    /\ \A i \in 1..Len(results) :
          isPrimitive(heap, results[i].arg) => results[i].ret = results[i].arg

C5_Witness ==
    /\ fn = "custom" /\ hasHandler(registry[fn], "String")
    /\ \E p \in log : p.arg = PStr /\ p.ret = PStr /\ ~p.looked

\* C6: no step of a call of the default clone changes an object of the
\* source graph.
C6_SourceNotMutated ==
    [][fn' = "default" => \A a \in Sources : heap'[a] = heap[a]]_vars

C6_Witness ==
    /\ Done /\ fn = "default" /\ IsRef(arg)
    /\ heap[arg].proto = "Function"
    /\ IsRef(Get(heap[arg], "prototype", Undefined))
    /\ \E p \in log : IsRef(p.arg) /\ p.ret > NSrc

\* C7 as stated: the default clone returns its argument exactly when the
\* argument is a primitive or a WeakMap, WeakSet or WeakRef instance; for
\* every other argument, nested or not, it returns a newly created
\* reference.
C7_IdentityExactlyWeak ==
    fn = "default" =>
        \A p \in log :
            IF isPrimitive(heap, p.arg) \/ IsWeak(heap, p.arg)
            THEN p.ret = p.arg
            ELSE IsRef(p.ret) /\ p.ret > base

\* C8 as stated: within one call of the default clone two distinct source
\* references never receive the same duplicate, and the duplicates of two
\* calls are disjoint: clone(a) # clone(a) unless a is a primitive or a weak
\* collection.
C8_OneToOne ==
    fn = "default" =>
        /\ \A p, q \in log :
              (IsRef(p.arg) /\ IsRef(q.arg) /\ p.arg # q.arg) => p.ret # q.ret
        /\ \A p \in log :
              (IsRef(p.arg) /\ ~IsWeak(heap, p.arg)) => p.ret > base
        /\ \A i, j \in 1..Len(results) :
              (i # j /\ IsRef(results[i].arg) /\ ~IsWeak(heap, results[i].arg))
                  => results[i].ret # results[j].ret

Keys(o) == {o.props[i].key : i \in 1..Len(o.props)}

\* C9 as stated: a duplicate made by the plain-object strategy has exactly
\* the own property keys of its source.
C9_TransferComplete ==
    \A p \in log :
        p.handler = "Object" => Keys(heap[p.ret]) = Keys(heap[p.arg])

\* r is what clone returned for v in the current call
IsClone(v, r) ==
    IF isPrimitive(heap, v) THEN r = v
    ELSE \E q \in log : q.arg = v /\ q.ret = r

\* The property of the duplicate with the key of descriptor d is d itself;
\* or it is an enumerable, writable, configurable data property that holds
\* the clone of d's value.
SameDescriptor(dup, d) ==
    HasOwn(dup, d.key) /\ dup.props[OwnIndex(dup, d.key)] = d

FreshClone(dup, d) ==
    /\ HasOwn(dup, d.key)
    /\ LET r == dup.props[OwnIndex(dup, d.key)] IN
       ~r.acc /\ r.e /\ r.w /\ r.c /\ IsClone(d.val, r.val)

\* The invocations whose handler ends in copyProperties, with the own
\* properties it copies.
Copied ==
    {<<p, d>> \in log \X UNION {{o.props[i] : i \in 1..Len(o.props)} :
                                   o \in {heap[a] : a \in 1..Len(heap)}} :
        /\ p.handler \in {"Object", "Error"} \cup CallableProtos
        /\ HasOwn(heap[p.arg], d.key)
        /\ heap[p.arg].props[OwnIndex(heap[p.arg], d.key)] = d
        /\ d.key # "prototype"}

C11_PrototypePreserved ==
    \A p \in log :
        p.handler = "Object" =>
            /\ heap[p.ret].proto = heap[p.arg].proto
            /\ HasOwn(heap[p.arg], "__proto__") =>
                   HasOwn(heap[p.ret], "__proto__")

\* A plain object with an own "__proto__" that holds a reference was cloned.
C11_Witness ==
    \E p \in log :
        /\ p.handler = "Object"
        /\ HasOwn(heap[p.arg], "__proto__")
        /\ IsRef(Get(heap[p.arg], "__proto__", Undefined))
        /\ HasOwn(heap[p.ret], "__proto__")

\* The places of the source of a finished handler that the handler hands to
\* clone: array elements, Map keys and values, Set members, and the own
\* properties that copyProperties assigns.
Met(p) ==
    IF p.handler \notin {"Array", "Map", "Set", "Object", "Error"}
                         \cup CallableProtos
    THEN {}
    ELSE
    LET o == heap[p.arg] IN
    {pl \in Places(o) :
        \/ pl.k # "prop" /\ p.handler \in {"Array", "Map", "Set"} /\ At(o, pl) # Hole
        \/ /\ pl.k = "prop"
           /\ p.handler \in {"Object", "Error"} \cup CallableProtos
           /\ pl.key # "prototype"
           /\ ~isPropertyAccessor(o.props[OwnIndex(o, pl.key)], pl.key)}

\* The duplicate holds r where the source holds the place pl.
Holds(p, pl, r) ==
    LET dup == heap[p.ret] IN
    IF pl.k = "prop" \/ p.handler = "Array" THEN At(dup, pl) = r
    ELSE IF pl.k = "mkey" THEN \E j \in 1..Len(dup.mkeys) : dup.mkeys[j] = r
    ELSE \E j \in 1..Len(dup.items) : dup.items[j] = r

Seed(r) ==
    IF r = Standalone THEN NewRegistry
    ELSE IF r = "default" THEN createDefaultRegistry
    ELSE ModifierOf(r, createDefaultRegistry)

\* The positions of the setHandler calls made on r for the constructor c.
CallsFor(r, c) ==
    {i \in 1..Len(calls) : calls[i].on = r /\ calls[i].constructor = c}

Latest(S) == CHOOSE i \in S : \A j \in S : j <= i

\* C13: after any sequence of setHandler calls, in every registry:
\* hasHandler(c) is true exactly when a setHandler(c, ...) has occurred (by
\* user code or when the registry was seeded); getHandler(v) is the handler
\* of the latest setHandler for the constructor of v, the seeded one when
\* user code made none, and null when there was none at all; every
\* setHandler call, overwriting or not, returned the registry it was
\* called on.
C13_LastWriteWins ==
    /\ \A r \in DOMAIN registry :
          LET seed == Seed(r) IN
          /\ \A c \in RegisteredConstructors \cup DOMAIN createDefaultRegistry :
                hasHandler(registry[r], c) <=>
                    (CallsFor(r, c) # {} \/ c \in DOMAIN seed)
          /\ \A v \in (1..NSrc) \cup Primitives :
                LET c == ConstructorOf(heap, v) IN
                getHandler(registry[r], heap, v) =
                    IF CallsFor(r, c) # {}
                    THEN calls[Latest(CallsFor(r, c))].handler
                    ELSE IF c \in DOMAIN seed THEN seed[c]
                    ELSE "null"
    /\ \A i \in 1..Len(calls) : calls[i].ret = calls[i].on

\* A handler was registered twice for String on the registry built with
\* new CloneRegistry(), and a String object gets the second one.
C13_Witness ==
    /\ Len(calls) = 2
    /\ calls[1].on = Standalone /\ calls[2].on = Standalone
    /\ calls[1].constructor = "String" /\ calls[2].constructor = "String"
    /\ calls[1].handler = "Identity" /\ calls[2].handler = "CustomString"
    /\ heap[1].proto = "String"
    /\ getHandler(registry[Standalone], heap, 1) = "CustomString"

\* C14: the registry of the default clone is the default registry at all
\* times; a clone function made by createCloneFunction starts with its own
\* registry holding every default handler (and what its modifier
\* registered); and neither the making of a clone function nor a setHandler
\* call on one registry changes another registry or what another clone
\* function does with a value.
C14_RegistryIsolation ==
    /\ [](registry["default"] = createDefaultRegistry)
    /\ [][\A f \in (DOMAIN registry' \ DOMAIN registry) \cap MadeLater :
             /\ \A c \in DOMAIN createDefaultRegistry :
                   hasHandler(registry'[f], c)
             /\ registry'[f] = ModifierOf(f, createDefaultRegistry)]_vars
    /\ [][\A g \in DOMAIN registry :
             (calls' = calls \/ calls'[Len(calls')].on # g) =>
                 /\ registry'[g] = registry[g]
                 /\ \A x \in 1..NSrc :
                       clone(registry'[g], heap', <<>>, x)
                           = clone(registry[g], heap, <<>>, x)]_vars

\* A handler for Klass was registered on the registry of "custom" only: the
\* clone function "kept" and the default clone still have none for it.
C14_Witness ==
    /\ {"custom", "kept"} \subseteq DOMAIN registry
    /\ calls # <<>>
    /\ \A i \in 1..Len(calls) :
          calls[i].on = "custom" /\ calls[i].constructor = "Klass"
    /\ heap[1].proto = "Klass"
    /\ getHandler(registry["custom"], heap, 1) = calls[Len(calls)].handler
    /\ getHandler(registry["kept"], heap, 1) = "null"
    /\ getHandler(registry["default"], heap, 1) = "null"

\* The handler that a registry gives the class a value was created by, the
\* plain-object handler when the class has none.
HandlerOfClass(reg, proto) ==
    IF proto \in DOMAIN reg THEN reg[proto] ELSE "Object"

\* C15 as stated: the handler that clone runs for a reference is decided by
\* the class the value was created by, and by nothing else: the handler
\* registered for exactly that class, the plain-object fallback when that
\* class has none.
C15_ExactTypeDispatch ==
    \A p \in log :
        (IsRef(p.arg) /\ p.looked) =>
            p.handler = HandlerOfClass(registry[fn], heap[p.arg].proto)

\* C16 as stated: a reference whose class has no handler in the registry of
\* the clone function (a class instance, an object with a null prototype)
\* is cloned by the plain-object handler and comes back as a duplicate, a
\* reference made during the call.
C16_FallbackNeverFails ==
    \A p \in log :
        (/\ IsRef(p.arg) /\ p.looked
         /\ heap[p.arg].proto \notin DOMAIN registry[fn])
            => p.handler = "Object" /\ p.ret > base

\* C17 as stated: when the latest setHandler call for the constructor of a
\* value passed a validator that rejects, the clone function returns that
\* very value, creates nothing and tracks nothing.
C17_ValidatorRejection ==
    \A r \in DOMAIN registry \cap MadeLater : \A x \in 1..NSrc :
        LET c == ConstructorOf(heap, x)
            out == clone(registry[r], heap, <<>>, x)
        IN  (/\ CallsFor(r, c) # {}
             /\ calls[Latest(CallsFor(r, c))].validator = "rejects")
                => out.done /\ out.val = x /\ out.heap = heap

\* C18 as stated: the clone of a genuine Promise is another genuine Promise;
\* it is settled only the way its source is, and then with the clone of the
\* source's value or reason.
C18_PromiseForwarding ==
    \A p \in log :
        (IsRef(p.arg) /\ IsPromise(heap[p.arg])) =>
            LET src == heap[p.arg]
                dup == heap[p.ret]
            IN  /\ p.ret # p.arg
                /\ IsPromise(dup)
                /\ dup.data \in {Pending, src.data}
                /\ dup.data # Pending =>
                       IsClone(src.items[1], dup.items[1])

\* C19 as stated: the clone of a Promise that is pending when clone returns
\* is a Promise that is pending too.
C19_PendingStaysPending ==
    \A p \in log :
        (/\ IsRef(p.arg) /\ IsPromise(heap[p.arg])
         /\ heap[p.arg].data = Pending)
            => IsPromise(heap[p.ret]) /\ heap[p.ret].data = Pending

CallReceivers == {Undefined} \cup (1..NSrc)

CallArguments == {PStr, 1}

\* What the claim promises of a call of each kind.
Promised(class) ==
    CASE class = "Function" -> {"value"}
      [] class = "AsyncFunction" -> {"promised"}
      [] class \in {"GeneratorFunction", "AsyncGeneratorFunction"} ->
            {"yielded"}

\* C20: the clone of a function (ordinary, async, generator or async
\* generator) is a function made during the call, of the same kind, and a
\* plain call of it with any receiver and arguments runs the body of the
\* original, with that receiver and those arguments, and hands on what the
\* original gives: the value, the promised value, the yielded sequence.
C20_FunctionCallability ==
    \A p \in log :
        (IsRef(p.arg) /\ heap[p.arg].proto \in CallableProtos) =>
            /\ p.ret # p.arg /\ p.ret > base
            /\ heap[p.ret].proto = heap[p.arg].proto
            /\ \A t \in CallReceivers, a \in CallArguments :
                  LET mine == PlainCall(heap, p.ret, t, a)
                      theirs == PlainCall(heap, p.arg, t, a)
                  IN  /\ mine.body = theirs.body /\ mine.body = p.arg
                      /\ mine.this = t /\ mine.args = a
                      /\ Promised(heap[p.arg].proto) \subseteq mine.gives

\* A function of each kind was cloned.
C20_Witness ==
    /\ Done
    /\ \E p \in log :
          /\ IsRef(p.arg) /\ p.ret > base
          /\ heap[p.arg].proto = "GeneratorFunction"
          /\ PlainCall(heap, p.ret, 1, PStr) =
                 [body |-> p.arg, this |-> 1, args |-> PStr,
                  gives |-> {"yielded"}]
    /\ \E p \in log :
          /\ IsRef(p.arg) /\ p.ret > base
          /\ heap[p.arg].proto = "Function"
          /\ PlainCall(heap, p.ret, 1, PStr) = PlainCall(heap, p.arg, 1, PStr)

\* C21: the default clone of a Map is a new Map with as many entries as the
\* source, entry j holding the clone of the source's key j and the clone of
\* its value j, and an object key of the duplicate is another reference than
\* the source key (a weak collection, which is returned as is, apart); the
\* clone of a Set is a new Set with as many members, member j being the
\* clone of the source's member j.
C21_MapSetCloning ==
    fn = "default" =>
        \A p \in log :
            p.handler \in {"Map", "Set"} =>
                LET s == heap[p.arg]
                    d == heap[p.ret]
                IN  /\ p.ret # p.arg /\ p.ret > base
                    /\ d.proto = s.proto
                    /\ Len(d.items) = Len(s.items)
                    /\ Len(d.mkeys) = Len(s.mkeys)
                    /\ \A j \in 1..Len(s.items) : IsClone(s.items[j], d.items[j])
                    /\ \A j \in 1..Len(s.mkeys) :
                          /\ IsClone(s.mkeys[j], d.mkeys[j])
                          /\ (IsRef(s.mkeys[j]) /\ ~IsWeak(heap, s.mkeys[j]))
                                => d.mkeys[j] # s.mkeys[j]

\* C22: the clone of an array has the length of the source, and every index
\* below it is present in the duplicate exactly when it is present in the
\* source: a hole stays a hole, a stored undefined stays stored; each present
\* element of the duplicate is the clone of the source's element.
C22_SparseArrays ==
    \A p \in log :
        p.handler = "Array" =>
            LET s == heap[p.arg]
                d == heap[p.ret]
            IN  /\ d.proto = "Array"
                /\ Len(d.items) = Len(s.items)
                /\ \A i \in 1..Len(s.items) :
                      /\ d.items[i] = Hole <=> s.items[i] = Hole
                      /\ s.items[i] # Hole => IsClone(s.items[i], d.items[i])

\* An array with a hole and a stored undefined was cloned.
C22_Witness ==
    /\ Done
    /\ \E p \in log :
          /\ p.handler = "Array"
          /\ \E i, j \in 1..Len(heap[p.arg].items) :
                /\ heap[p.arg].items[i] = Hole /\ heap[p.ret].items[i] = Hole
                /\ heap[p.arg].items[j] = Undefined
                /\ heap[p.ret].items[j] = Undefined

BinaryProtos == ViewClasses \cup {"ArrayBuffer"}

\* The buffer behind a binary object, and the bytes the object shows.
BufferOf(hp, x) == IF hp[x].proto = "ArrayBuffer" THEN x ELSE hp[x].items[1]

Contents(hp, x) ==
    IF hp[x].proto = "ArrayBuffer" THEN hp[x].items
    ELSE LET v == hp[x].items IN
         SubSeq(hp[v[1]].items, v[2] + 1,
                v[2] + v[3] * BytesPerElement(hp[x].proto))

\* C23: when clone returns for an ArrayBuffer, a typed array or a DataView,
\* the duplicate is another object of the same class with the byte offset,
\* the length and the contents of the source, on a buffer that is another
\* object than the source's buffer; and from then on a step that changes the
\* buffer of the source leaves the contents of the duplicate as they were,
\* and a step that changes the buffer of the duplicate leaves the contents
\* of the source as they were.
C23_BufferIndependence ==
    /\ [][results' # results =>
            LET r == results'[Len(results')]
                s == heap'[r.arg]
                d == heap'[r.ret]
            IN  /\ r.ret # r.arg
                /\ d.proto = s.proto
                /\ s.proto # "ArrayBuffer" =>
                      d.items[2] = s.items[2] /\ d.items[3] = s.items[3]
                /\ Contents(heap', r.ret) = Contents(heap', r.arg)
                /\ BufferOf(heap', r.ret) # BufferOf(heap', r.arg)]_vars
    /\ [][\A i \in 1..Len(results) :
            LET r == results[i]
                mine == BufferOf(heap, r.ret)
                theirs == BufferOf(heap, r.arg)
            IN  /\ heap'[theirs] # heap[theirs] =>
                      Contents(heap', r.ret) = Contents(heap, r.ret)
                /\ heap'[mine] # heap[mine] =>
                      Contents(heap', r.arg) = Contents(heap, r.arg)]_vars

\* A view that begins past the first byte of its buffer was cloned, and a
\* byte it shows was overwritten in the source's buffer afterwards: the
\* duplicate still shows the old byte.
C23_Witness ==
    /\ pc = "done"
    /\ \E i \in 1..Len(results) :
          LET r == results[i] IN
          /\ heap[r.arg].proto \in ViewClasses
          /\ heap[r.arg].items[2] > 0 /\ heap[r.arg].items[3] > 0
          /\ Contents(heap, r.arg) # Contents(heap, r.ret)
          /\ \A j \in 1..Len(Contents(heap, r.ret)) :
                Contents(heap, r.ret)[j] = 0

\* The own fields of an error besides those every error has.
ExtraFields(o) ==
    {o.props[i] : i \in {n \in 1..Len(o.props) :
                            o.props[n].key \notin {"stack", "message", "name"}}}

\* C24: the clone of an instance of Error or of a subclass of Error is
\* another reference of the same class with the message, the name and the
\* stack of the source, and every extra own field of the source is an own
\* field of the duplicate that holds the clone of the source's value, a
\* duplicate and not the source's object when the value is an object (a weak
\* collection, which is returned as is, apart).
C24_ErrorCloning ==
    \A p \in log :
        (IsRef(p.arg) /\ heap[p.arg].proto \in ErrorClasses
         /\ p.handler # "none") =>
            LET s == heap[p.arg]
                d == heap[p.ret]
            IN  /\ p.ret # p.arg /\ p.ret > base
                /\ d.proto = s.proto
                /\ Get(d, "message", PProto) = Get(s, "message", PProto)
                /\ Get(d, "name", PProto) = Get(s, "name", PProto)
                /\ Get(d, "stack", Undefined) = Get(s, "stack", Undefined)
                /\ \A f \in ExtraFields(s) :
                      /\ HasOwn(d, f.key)
                      /\ IsClone(f.val, Get(d, f.key, Undefined))
                      /\ (IsRef(f.val) /\ ~IsWeak(heap, f.val))
                            => Get(d, f.key, Undefined) # f.val

\* The handlers a registry modifier set, and those among them that write
\* visited.set(value, result) before their first recursive clone call.
CustomHandlers == {"CustomArray", "MyCustomType"}

RegisteringFirst == {"CustomArray"}

\* Within a call, the handlers named in H are run at most once for a source
\* value, and every clone call on that value returns the one duplicate.
RunOnce(H) ==
    /\ \A j, k \in 1..Len(invoked) :
          (j # k /\ invoked[j].arg = invoked[k].arg)
              => invoked[j].handler \notin H
    /\ \A p, q \in log :
          (p.arg = q.arg /\ IsRef(p.arg)
           /\ ConstructorOf(heap, p.arg) \in DOMAIN registry[fn]
           /\ registry[fn][ConstructorOf(heap, p.arg)] \in H)
              => p.ret = q.ret

C26_RegistrationBeforeRecursion ==
    \A i \in 1..Len(stack) :
        /\ stack[i].src \in Tracked
        /\ visitedGet(visited, stack[i].src) = stack[i].dst

\* Two handlers are running and the next child of the inner one is the
\* source of the outer one.
C26_Witness ==
    /\ pc = "running"
    /\ Len(stack) >= 2
    /\ Top.i <= Count(heap, Top)
    /\ Child(heap, Top) = stack[1].src
    /\ stack[1].src \in Tracked

\* What the body of the original may return to a new-expression: nothing,
\* a string, the string "object", an object.
BodyReturns == {Undefined, PStr, PObjectWord, 1}

\* C27: for the clone c of an ordinary function F that has a prototype,
\* new c(args) runs the body of F with args on a new instance whose
\* prototype is c.prototype, an object other than F.prototype that has the
\* own enumerable members of F.prototype; the new-expression gives the
\* value F returned when that is an object or a function, and the
\* initialised instance otherwise.
C27_ConstructsLikeOriginal ==
    \A p \in log :
        (p.handler = "Function" /\ HasOwn(heap[p.arg], "prototype")) =>
            LET cproto == Get(heap[p.ret], "prototype", Undefined)
                fproto == Get(heap[p.arg], "prototype", Undefined)
            IN  /\ IsRef(cproto) /\ cproto # fproto
                /\ \A i \in 1..Len(heap[fproto].props) :
                      LET d == heap[fproto].props[i] IN
                      d.e => /\ HasOwn(heap[cproto], d.key)
                             /\ Get(heap[cproto], d.key, Undefined)
                                   = Get(heap[fproto], d.key, Undefined)
                /\ \A a \in CallArguments, returned \in BodyReturns :
                      LET mine == createInstanceConstruct(heap, p.ret, a,
                                                          returned)
                          theirs == ConstructOriginal(heap, p.arg, a, returned)
                      IN  /\ mine.is = theirs.is
                          /\ mine.value = theirs.value
                          /\ mine.body = p.arg /\ mine.args = a
                          /\ mine.is = "instance" => mine.proto = cproto

\* The handler the registry gives for the constructor the value shows, the
\* plain-object handler when it gives none.
Dispatched(reg, hp, v) ==
    IF ConstructorOf(hp, v) \in DOMAIN reg THEN reg[ConstructorOf(hp, v)]
    ELSE "Object"

\* C28: every clone invocation decides in this order: a primitive is
\* returned as it is, before the tracker or the registry is asked; a
\* reference found in the tracker is answered with its tracked duplicate,
\* no handler being looked up or run; otherwise the handler registered for
\* the value's constructor runs, the plain-object handler when there is
\* none.  So with a tracker m the caller passes to every call, a call on a
\* reference that m holds returns at once what m maps it to, whatever the
\* type of the reference and whether an earlier call or the caller wrote
\* the entry, and two calls clone(v, m) on a tracked v return the same
\* duplicate.
C28_DispatchOrder ==
    /\ [](\A p \in log :
            IF isPrimitive(heap, p.arg)
            THEN p.ret = p.arg /\ p.handler = "none" /\ ~p.tracked /\ ~p.looked
            ELSE IF p.handler = "none"
                 THEN /\ p.tracked /\ ~p.looked
                      /\ p.arg \in DOMAIN visited
                      /\ p.ret = visitedGet(visited, p.arg)
                 ELSE p.looked
                      /\ p.handler = Dispatched(registry[fn], heap, p.arg))
    /\ [][(pc \in {"idle", "done"} /\ (pc' = "running" \/ results' # results)
           /\ arg' \in DOMAIN visited)
              => /\ pc' = "done"
                 /\ results'[Len(results')].ret = visitedGet(visited, arg')
                 /\ heap' = heap /\ visited' = visited
                 /\ invoked' = <<>>]_vars
    /\ [](\A i, j \in 1..Len(results) :
            (results[i].arg = results[j].arg
             /\ results[i].arg \in DOMAIN visited)
                => results[i].ret = results[j].ret)

\* The caller seeded its tracker with a primitive for one reference, and
\* two calls on another reference returned the one duplicate, which the
\* first of them made.
C28_Witness ==
    /\ pc = "done"
    /\ Len(results) = 2
    /\ IsRef(results[1].arg)
    /\ results[1].arg = results[2].arg
    /\ results[1].ret = results[2].ret
    /\ results[1].ret > NSrc
    /\ \E v \in DOMAIN visited : visitedGet(visited, v) = PStr

\* The invocations that end in copyProperties.
Transfers == {p \in log : p.handler \in {"Object", "Error"} \cup CallableProtos}

\* C29 as stated: property transfer leaves out the keys constructor,
\* length, arguments, caller and callee of a callable, and the well-known
\* symbol keys of any object: the duplicate does not get the source's
\* property under such a key.
C29_ReflectiveKeysSkipped ==
    \A p \in Transfers :
        LET s == heap[p.arg]
            d == heap[p.ret]
        IN  /\ s.proto \in CallableProtos =>
                  \A key \in ReflectiveKeys :
                      HasOwn(s, key) => ~SameDescriptor(d, s.props[OwnIndex(s, key)])
            /\ \A key \in WellKnownSymbols : HasOwn(s, key) => ~HasOwn(d, key)

\* The duplicate has the property as copyProperties transfers any own
\* property: under the source's descriptor when isPropertyAccessor holds of
\* it, as an ordinary property assigned the clone of the value otherwise.
Transferred(dup, descriptor) ==
    IF isPropertyAccessor(descriptor, descriptor.key)
    THEN SameDescriptor(dup, descriptor)
    ELSE FreshClone(dup, descriptor)

\* C29 (amended): property transfer passes over the key "prototype" only:
\* the keys constructor, length, arguments, caller and callee of a callable
\* and the well-known symbol keys of any object are transferred from the
\* source to the duplicate like every other own key.
C29_OnlyPrototypeSkipped ==
    \A p \in Transfers :
        LET s == heap[p.arg]
            d == heap[p.ret]
        IN  /\ s.proto \in CallableProtos =>
                  \A key \in ReflectiveKeys :
                      HasOwn(s, key) => Transferred(d, s.props[OwnIndex(s, key)])
            /\ \A key \in WellKnownSymbols :
                  HasOwn(s, key) => Transferred(d, s.props[OwnIndex(s, key)])

\* A function with a length and a property that holds an object with a
\* well-known symbol key was cloned: both keys are on the duplicates.
C29_Witness ==
    /\ Done
    /\ \E p \in Transfers :
          /\ p.handler = "Function"
          /\ SameDescriptor(heap[p.ret],
                            heap[p.arg].props[OwnIndex(heap[p.arg], "length")])
    /\ \E p \in Transfers :
          /\ HasOwn(heap[p.arg], "@@iterator")
          /\ IsRef(Get(heap[p.arg], "@@iterator", Undefined))
          /\ HasOwn(heap[p.ret], "@@iterator")

\* C30: when the registry modifier registers a handler of its own for
\* Object, that handler is run for the values whose constructor is Object
\* and for no other value; a value whose constructor has no entry in the
\* registry (an instance of a class, a null-prototype object, an instance
\* of a built-in without a handler) is cloned by the built-in plain-object
\* handler: it gets a duplicate made during the call with its prototype.
C30_FallbackIsFixed ==
    fn = "override" =>
        \A p \in log :
            (IsRef(p.arg) /\ p.handler # "none") =>
                LET constructor == ConstructorOf(heap, p.arg) IN
                /\ p.handler = "OverridingObject" <=> constructor = "Object"
                /\ p.handler = "OverridingObject" => p.ret = PCustom
                /\ constructor \notin DOMAIN registry[fn] =>
                      /\ p.handler = "Object"
                      /\ p.ret > base /\ p.ret # p.arg
                      /\ heap[p.ret].proto = heap[p.arg].proto

\* An instance of a class that holds a plain object was cloned: the
\* instance by the built-in handler, the plain object inside it by the
\* handler the modifier registered.
C30_Witness ==
    /\ Done /\ fn = "override"
    /\ \E p \in log :
          /\ p.handler = "Object"
          /\ heap[p.arg].proto = "Klass"
          /\ IsRef(Get(heap[p.arg], "a", Undefined))
          /\ ConstructorOf(heap, Get(heap[p.arg], "a", Undefined)) = "Object"
          /\ Get(heap[p.ret], "a", Undefined) = PCustom

====
